---- MODULE Spec2Model ----
(***************************************************************************)
(* Resume analyzer (src/resume_analyzer/app_clean.py).                     *)
(*                                                                         *)
(* Python strings are sequences of one-character strings, so that lower(), *)
(* the regular-expression search, split() and difflib's similarity ratio   *)
(* are computed character by character.  Floats are exact rationals        *)
(* [num, den] in lowest terms; every float the model reaches (k/n*100 and  *)
(* the weighted sum) is compared only with 0, 60, 80 and 100.              *)
(***************************************************************************)
EXTENDS Integers, Sequences, FiniteSets, TLC

VARIABLES
  JOB_ROLE_DATA,    \* the module-level role catalog (a dict of dicts of lists)
  provider,         \* answers the similarity provider has given: input -> score
  pc,               \* position of main() in the current run
  uploaded_file,    \* st.file_uploader result of the current run
  selected_role,    \* st.selectbox result of the current run
  resume_text,      \* local of main()
  extracted,        \* locals extracted_skills / _tools / _certs
  scores,           \* locals skill_score, tool_score, cert_score, semantic_score
  overall_score,    \* local of main()
  missing,          \* locals missing_skills / _tools / _certs
  shown,            \* what the run has rendered so far, in order
  steps,            \* the statements of main() the run has completed, in order
  error,            \* the exception that ended the run, or "none"
  runs,             \* number of main() executions started in this process
  first_result,     \* (document, role) -> outcome of the first completed run
  last_result,      \* outcome of the most recent completed run, or None
  call              \* a direct call of a helper function: name, arguments, result

vars == <<JOB_ROLE_DATA, provider, pc, uploaded_file, selected_role, resume_text,
          extracted, scores, overall_score, missing, shown, steps, error, runs,
          first_result, last_result, call>>

None == "None"

----------------------------------------------------------------------------
(* The catalog literal, lines 14-70.                                       *)

JOB_ROLE_DATA_literal ==
     "Data Scientist" :> [
       skills |-> <<<<"P","y","t","h","o","n">>,
                    <<"R">>,
                    <<"S","Q","L">>,
                    <<"M","a","c","h","i","n","e"," ","L","e","a","r","n","i","n","g">>,
                    <<"D","e","e","p"," ","L","e","a","r","n","i","n","g">>,
                    <<"S","t","a","t","i","s","t","i","c","s">>,
                    <<"D","a","t","a"," ","V","i","s","u","a","l","i","z","a","t","i","o","n">>>>,
       tools |-> <<<<"P","a","n","d","a","s">>,
                   <<"N","u","m","P","y">>,
                   <<"S","c","i","k","i","t","-","l","e","a","r","n">>,
                   <<"T","e","n","s","o","r","F","l","o","w">>,
                   <<"M","a","t","p","l","o","t","l","i","b">>>>,
       certifications |-> <<<<"I","B","M"," ","D","a","t","a"," ","S","c","i","e","n","c","e"," ","P","r","o","f","e","s","s","i","o","n","a","l"," ","C","e","r","t","i","f","i","c","a","t","e">>,
                            <<"G","o","o","g","l","e"," ","D","a","t","a"," ","A","n","a","l","y","t","i","c","s"," ","C","e","r","t","i","f","i","c","a","t","e">>>> ]
  @@ "Web Developer" :> [
       skills |-> <<<<"H","T","M","L">>,
                    <<"C","S","S">>,
                    <<"J","a","v","a","S","c","r","i","p","t">>,
                    <<"R","e","a","c","t">>,
                    <<"N","o","d","e",".","j","s">>,
                    <<"R","E","S","T"," ","A","P","I","s">>,
                    <<"R","e","s","p","o","n","s","i","v","e"," ","D","e","s","i","g","n">>>>,
       tools |-> <<<<"V","S"," ","C","o","d","e">>,
                   <<"C","h","r","o","m","e"," ","D","e","v","T","o","o","l","s">>,
                   <<"G","i","t">>,
                   <<"W","e","b","p","a","c","k">>>>,
       certifications |-> <<<<"M","e","t","a"," ","F","r","o","n","t","-","E","n","d"," ","D","e","v","e","l","o","p","e","r">>,
                            <<"f","r","e","e","C","o","d","e","C","a","m","p"," ","R","e","s","p","o","n","s","i","v","e"," ","W","e","b"," ","D","e","s","i","g","n">>>> ]
  @@ "AI Engineer" :> [
       skills |-> <<<<"P","y","t","h","o","n">>,
                    <<"T","e","n","s","o","r","F","l","o","w">>,
                    <<"P","y","T","o","r","c","h">>,
                    <<"C","o","m","p","u","t","e","r"," ","V","i","s","i","o","n">>,
                    <<"N","L","P">>,
                    <<"M","o","d","e","l"," ","D","e","p","l","o","y","m","e","n","t">>>>,
       tools |-> <<<<"T","e","n","s","o","r","F","l","o","w">>,
                   <<"P","y","T","o","r","c","h">>,
                   <<"O","p","e","n","C","V">>,
                   <<"H","u","g","g","i","n","g"," ","F","a","c","e"," ","T","r","a","n","s","f","o","r","m","e","r","s">>>>,
       certifications |-> <<<<"T","e","n","s","o","r","F","l","o","w"," ","D","e","v","e","l","o","p","e","r"," ","C","e","r","t","i","f","i","c","a","t","e">>,
                            <<"A","I"," ","F","o","r"," ","E","v","e","r","y","o","n","e"," ","b","y"," ","A","n","d","r","e","w"," ","N","g">>>> ]
  @@ "ML Engineer" :> [
       skills |-> <<<<"P","y","t","h","o","n">>,
                    <<"S","c","i","k","i","t","-","l","e","a","r","n">>,
                    <<"M","a","c","h","i","n","e"," ","L","e","a","r","n","i","n","g">>,
                    <<"D","e","e","p"," ","L","e","a","r","n","i","n","g">>,
                    <<"D","a","t","a"," ","E","n","g","i","n","e","e","r","i","n","g">>>>,
       tools |-> <<<<"T","e","n","s","o","r","F","l","o","w">>,
                   <<"P","y","T","o","r","c","h">>,
                   <<"K","e","r","a","s">>,
                   <<"A","i","r","f","l","o","w">>,
                   <<"D","o","c","k","e","r">>>>,
       certifications |-> <<<<"A","W","S"," ","M","a","c","h","i","n","e"," ","L","e","a","r","n","i","n","g"," ","S","p","e","c","i","a","l","t","y">>,
                            <<"T","e","n","s","o","r","F","l","o","w"," ","D","e","v","e","l","o","p","e","r"," ","C","e","r","t","i","f","i","c","a","t","e">>>> ]
  @@ "Software Engineer" :> [
       skills |-> <<<<"J","a","v","a">>,
                    <<"P","y","t","h","o","n">>,
                    <<"C","+","+">>,
                    <<"A","l","g","o","r","i","t","h","m","s">>,
                    <<"D","a","t","a"," ","S","t","r","u","c","t","u","r","e","s">>>>,
       tools |-> <<<<"G","i","t">>,
                   <<"V","S"," ","C","o","d","e">>,
                   <<"J","i","r","a">>,
                   <<"D","o","c","k","e","r">>>>,
       certifications |-> <<<<"O","r","a","c","l","e"," ","J","a","v","a"," ","C","e","r","t","i","f","i","c","a","t","i","o","n">>,
                            <<"A","W","S"," ","C","e","r","t","i","f","i","e","d"," ","D","e","v","e","l","o","p","e","r">>>> ]
  @@ "DevOps Engineer" :> [
       skills |-> <<<<"C","I","/","C","D">>,
                    <<"A","u","t","o","m","a","t","i","o","n">>,
                    <<"C","l","o","u","d">>,
                    <<"D","o","c","k","e","r">>,
                    <<"K","u","b","e","r","n","e","t","e","s">>>>,
       tools |-> <<<<"J","e","n","k","i","n","s">>,
                   <<"D","o","c","k","e","r">>,
                   <<"K","u","b","e","r","n","e","t","e","s">>,
                   <<"T","e","r","r","a","f","o","r","m">>,
                   <<"G","i","t">>>>,
       certifications |-> <<<<"A","W","S"," ","D","e","v","O","p","s"," ","E","n","g","i","n","e","e","r">>,
                            <<"D","o","c","k","e","r"," ","C","e","r","t","i","f","i","e","d"," ","A","s","s","o","c","i","a","t","e">>>> ]
  @@ "Cloud Engineer" :> [
       skills |-> <<<<"A","W","S">>,
                    <<"A","z","u","r","e">>,
                    <<"G","C","P">>,
                    <<"N","e","t","w","o","r","k","i","n","g">>,
                    <<"C","l","o","u","d"," ","A","r","c","h","i","t","e","c","t","u","r","e">>>>,
       tools |-> <<<<"T","e","r","r","a","f","o","r","m">>,
                   <<"A","n","s","i","b","l","e">>,
                   <<"K","u","b","e","r","n","e","t","e","s">>,
                   <<"D","o","c","k","e","r">>>>,
       certifications |-> <<<<"A","W","S"," ","S","o","l","u","t","i","o","n","s"," ","A","r","c","h","i","t","e","c","t">>,
                            <<"G","o","o","g","l","e"," ","C","l","o","u","d"," ","P","r","o","f","e","s","s","i","o","n","a","l">>>> ]
  @@ "Cybersecurity Analyst" :> [
       skills |-> <<<<"N","e","t","w","o","r","k"," ","S","e","c","u","r","i","t","y">>,
                    <<"P","e","n","e","t","r","a","t","i","o","n"," ","T","e","s","t","i","n","g">>,
                    <<"I","n","c","i","d","e","n","t"," ","R","e","s","p","o","n","s","e">>,
                    <<"T","h","r","e","a","t"," ","A","n","a","l","y","s","i","s">>>>,
       tools |-> <<<<"W","i","r","e","s","h","a","r","k">>,
                   <<"N","m","a","p">>,
                   <<"M","e","t","a","s","p","l","o","i","t">>,
                   <<"S","p","l","u","n","k">>>>,
       certifications |-> <<<<"C","E","H">>,
                            <<"C","I","S","S","P">>,
                            <<"C","o","m","p","T","I","A"," ","S","e","c","u","r","i","t","y","+">>>> ]
  @@ "Business Analyst" :> [
       skills |-> <<<<"R","e","q","u","i","r","e","m","e","n","t"," ","A","n","a","l","y","s","i","s">>,
                    <<"S","Q","L">>,
                    <<"D","a","t","a"," ","V","i","s","u","a","l","i","z","a","t","i","o","n">>,
                    <<"D","o","c","u","m","e","n","t","a","t","i","o","n">>>>,
       tools |-> <<<<"E","x","c","e","l">>,
                   <<"P","o","w","e","r"," ","B","I">>,
                   <<"T","a","b","l","e","a","u">>,
                   <<"J","i","r","a">>>>,
       certifications |-> <<<<"C","B","A","P">>,
                            <<"I","I","B","A"," ","C","e","r","t","i","f","i","c","a","t","i","o","n">>>> ]
  @@ "Product Manager" :> [
       skills |-> <<<<"R","o","a","d","m","a","p"," ","P","l","a","n","n","i","n","g">>,
                    <<"M","a","r","k","e","t"," ","R","e","s","e","a","r","c","h">>,
                    <<"U","s","e","r"," ","S","t","o","r","i","e","s">>,
                    <<"S","t","a","k","e","h","o","l","d","e","r"," ","M","a","n","a","g","e","m","e","n","t">>>>,
       tools |-> <<<<"J","i","r","a">>,
                   <<"T","r","e","l","l","o">>,
                   <<"A","h","a","!">>,
                   <<"M","i","r","o">>>>,
       certifications |-> <<<<"C","e","r","t","i","f","i","e","d"," ","S","c","r","u","m"," ","P","r","o","d","u","c","t"," ","O","w","n","e","r">>,
                            <<"P","M","P">>>> ]
  @@ "QA Engineer" :> [
       skills |-> <<<<"T","e","s","t"," ","A","u","t","o","m","a","t","i","o","n">>,
                    <<"M","a","n","u","a","l"," ","T","e","s","t","i","n","g">>,
                    <<"S","e","l","e","n","i","u","m">>,
                    <<"P","e","r","f","o","r","m","a","n","c","e"," ","T","e","s","t","i","n","g">>>>,
       tools |-> <<<<"S","e","l","e","n","i","u","m">>,
                   <<"J","i","r","a">>,
                   <<"P","o","s","t","m","a","n">>,
                   <<"T","e","s","t","R","a","i","l">>>>,
       certifications |-> <<<<"I","S","T","Q","B"," ","F","o","u","n","d","a","t","i","o","n">>,
                            <<"C","e","r","t","i","f","i","e","d"," ","S","o","f","t","w","a","r","e"," ","T","e","s","t","e","r">>>> ]

ResumeHtmlCssDocker ==
  [ok |-> TRUE,
   pages |-> <<<<"H","T","M","L"," ","a","n","d"," ","C","S","S","\n">>,
              <<"D","o","c","k","e","r"," ","k","u","b","e","r","n","e","t","e","e","s"," ","J","e","n","k","i","n","s","\n">>>>]

ResumeWebSkillsTools ==
  [ok |-> TRUE,
   pages |-> <<<<"H","T","M","L"," ","C","S","S"," ","J","a","v","a","S","c","r","i","p","t"," ","R","e","a","c","t"," ","N","o","d","e",".","j","s","\n">>,
              <<"R","E","S","T"," ","A","P","I","s",","," ","R","e","s","p","o","n","s","i","v","e"," ","D","e","s","i","g","n","."," ","G","i","t"," ","W","e","b","p","a","c","k","\n">>>>]

ResumeWebSkillsCert ==
  [ok |-> TRUE,
   pages |-> <<<<"h","t","m","l"," ","c","s","s"," ","j","a","v","a","s","c","r","i","p","t"," ","r","e","a","c","t"," ","n","o","d","e",".","j","s"," ","r","e","s","t"," ","a","p","i","s","\n">>,
              <<"r","e","s","p","o","n","s","i","v","e"," ","d","e","s","i","g","n",";"," ","M","e","t","a"," ","F","r","o","n","t","-","E","n","d"," ","D","e","v","e","l","o","p","e","r","\n">>>>]

ResumeWebFull ==
  [ok |-> TRUE,
   pages |-> <<<<"H","T","M","L"," ","C","S","S"," ","J","a","v","a","S","c","r","i","p","t"," ","R","e","a","c","t"," ","N","o","d","e",".","j","s"," ","R","E","S","T"," ","A","P","I","s"," ","R","e","s","p","o","n","s","i","v","e"," ","D","e","s","i","g","n","\n">>,
              <<"V","S"," ","C","o","d","e",","," ","C","h","r","o","m","e"," ","D","e","v","T","o","o","l","s",","," ","G","i","t",","," ","W","e","b","p","a","c","k","\n">>,
              <<"M","e","t","a"," ","F","r","o","n","t","-","E","n","d"," ","D","e","v","e","l","o","p","e","r",";"," ","f","r","e","e","C","o","d","e","C","a","m","p"," ","R","e","s","p","o","n","s","i","v","e"," ","W","e","b"," ","D","e","s","i","g","n","\n">>>>]

----------------------------------------------------------------------------
(* Python str operations.                                                  *)

UpperAlpha == <<"A","B","C","D","E","F","G","H","I","J","K","L","M",
                "N","O","P","Q","R","S","T","U","V","W","X","Y","Z">>
LowerAlpha == <<"a","b","c","d","e","f","g","h","i","j","k","l","m",
                "n","o","p","q","r","s","t","u","v","w","x","y","z">>
Digits == {"0","1","2","3","4","5","6","7","8","9"}

Range(s) == {s[i] : i \in DOMAIN s}

\* str.lower() on one character
LowerChar(c) ==
  IF \E i \in DOMAIN UpperAlpha : UpperAlpha[i] = c
  THEN LowerAlpha[CHOOSE i \in DOMAIN UpperAlpha : UpperAlpha[i] = c]
  ELSE c

\* str.lower()
lower(s) == [i \in DOMAIN s |-> LowerChar(s[i])]

\* s[lo:hi] with 0 <= lo <= hi <= len(s) (Python's half-open slice)
Slice(s, lo, hi) == [i \in 1..(hi - lo) |-> s[lo + i]]

\* the characters str.split() separates on
Whitespace == {" ", "\n", "\t"}

\* regular-expression \w
IsWordChar(c) == c \in Range(UpperAlpha) \cup Range(LowerAlpha) \cup Digits \cup {"_"}

\* regular-expression \b at offset p (between s[p-1] and s[p], 0-based)
WordBoundary(s, p) ==
  LET before == p >= 1 /\ IsWordChar(s[p])
      after  == p < Len(s) /\ IsWordChar(s[p + 1])
  IN before # after

\* re.search(r"\b" + re.escape(pat) + r"\b", text): the escaped pattern is
\* matched literally, with a word boundary on each side
re_search_word(pat, text) ==
  \E i \in 0..(Len(text) - Len(pat)) :
    /\ Slice(text, i, i + Len(pat)) = pat
    /\ WordBoundary(text, i)
    /\ WordBoundary(text, i + Len(pat))

\* str.split(): the maximal runs of non-whitespace characters, in order
split(s) ==
  LET starts   == {i \in DOMAIN s :
                     s[i] \notin Whitespace /\ (i = 1 \/ s[i - 1] \in Whitespace)}
      EndOf(i) == CHOOSE j \in i..Len(s) :
                    /\ \A k \in i..j : s[k] \notin Whitespace
                    /\ (j = Len(s) \/ s[j + 1] \in Whitespace)
      Nth(k)   == CHOOSE i \in starts : Cardinality({j \in starts : j < i}) = k - 1
  IN [k \in 1..Cardinality(starts) |-> SubSeq(s, Nth(k), EndOf(Nth(k)))]

\* " ".join(items)
RECURSIVE join(_)
join(items) ==
  IF items = <<>> THEN <<>>
  ELSE IF Len(items) = 1 THEN items[1]
  ELSE items[1] \o <<" ">> \o join(Tail(items))

----------------------------------------------------------------------------
(* difflib.SequenceMatcher and get_close_matches, as called on line 87.    *)
(* No element is junk: the autojunk heuristic needs a second sequence of   *)
(* 200 or more elements and the second sequence is one catalog item.       *)

Min(x, y) == IF x <= y THEN x ELSE y

\* length of the common run of a[i:ahi] and b[j:bhi] (0-based i, j)
RECURSIVE CommonRun(_, _, _, _, _, _)
CommonRun(a, i, ahi, b, j, bhi) ==
  IF i < ahi /\ j < bhi /\ a[i + 1] = b[j + 1]
  THEN 1 + CommonRun(a, i + 1, ahi, b, j + 1, bhi)
  ELSE 0

\* SequenceMatcher.find_longest_match: the longest block, the earliest in a
\* among the longest, the earliest in b among those; (alo, blo, 0) if none
find_longest_match(a, alo, ahi, b, blo, bhi) ==
  LET blocks == {<<i, j, CommonRun(a, i, ahi, b, j, bhi)>> :
                   i \in alo..(ahi - 1), j \in blo..(bhi - 1)}
      best   == {t \in blocks : t[3] > 0 /\ \A u \in blocks : u[3] <= t[3]}
      first  == {t \in best : \A u \in best :
                   t[1] < u[1] \/ (t[1] = u[1] /\ t[2] <= u[2])}
  IN IF best = {} THEN <<alo, blo, 0>> ELSE CHOOSE t \in first : TRUE

\* sum of the sizes of SequenceMatcher.get_matching_blocks(): the longest
\* block, then the same to its left and to its right
RECURSIVE matching_size(_, _, _, _, _, _)
matching_size(a, alo, ahi, b, blo, bhi) ==
  IF alo >= ahi \/ blo >= bhi THEN 0
  ELSE LET m == find_longest_match(a, alo, ahi, b, blo, bhi)
       IN IF m[3] = 0 THEN 0
          ELSE m[3] + matching_size(a, alo, m[1], b, blo, m[2])
                    + matching_size(a, m[1] + m[3], ahi, b, m[2] + m[3], bhi)

\* number of occurrences of character c in s
Count(s, c) == Cardinality({i \in DOMAIN s : s[i] = c})

\* the multiset intersection size SequenceMatcher.quick_ratio() counts
QuickMatches(a, b) ==
  LET chars == Range(a) \cap Range(b)
      RECURSIVE Sum(_)
      Sum(S) == IF S = {} THEN 0
                ELSE LET c == CHOOSE x \in S : TRUE
                     IN Min(Count(a, c), Count(b, c)) + Sum(S \ {c})
  IN Sum(chars)

\* _calculate_ratio(matches, length) >= 0.8, i.e. 2.0*matches/length >= 0.8,
\* and 1.0 >= 0.8 when length is 0
RatioAtLeastCutoff(matches, length) ==
  IF length = 0 THEN TRUE ELSE 10 * matches >= 4 * length

\* the three tests get_close_matches applies to one possibility x
IsCloseMatch(x, word) ==
  /\ RatioAtLeastCutoff(Min(Len(x), Len(word)), Len(x) + Len(word))
  /\ RatioAtLeastCutoff(QuickMatches(x, word), Len(x) + Len(word))
  /\ RatioAtLeastCutoff(matching_size(x, 0, Len(x), word, 0, Len(word)),
                        Len(x) + Len(word))

\* get_close_matches(word, possibilities, n=1, cutoff=0.8) is non-empty
get_close_matches(word, possibilities) ==
  \E k \in DOMAIN possibilities : IsCloseMatch(possibilities[k], word)

----------------------------------------------------------------------------
(* Numbers: a Python float is the exact rational it stands for.            *)

Abs(x) == IF x < 0 THEN -x ELSE x

RECURSIVE GCD(_, _)
GCD(a, b) == IF b = 0 THEN a ELSE GCD(b, a % b)

\* n/d in lowest terms, d > 0
Rat(n, d) ==
  LET g == GCD(Abs(n), d)
  IN [num |-> n \div g, den |-> d \div g]

RatAdd(x, y) == Rat(x.num * y.den + y.num * x.den, x.den * y.den)
RatMul(x, y) == Rat(x.num * y.num, x.den * y.den)
RatGeq(x, y) == x.num * y.den >= y.num * x.den
RatLeq(x, y) == RatGeq(y, x)

\* f"{x:.2f}": x rounded to hundredths, as a number of hundredths
Format2f(x) == (2 * 100 * x.num + x.den) \div (2 * x.den)

----------------------------------------------------------------------------
(* Helper functions, lines 73-104.                                         *)

RECURSIVE ConcatAll(_)
ConcatAll(ss) == IF ss = <<>> THEN <<>> ELSE Head(ss) \o ConcatAll(Tail(ss))

\* extract_text_from_pdf for a document fitz can open: the pages' text,
\* concatenated, in lower case
extract_text_from_pdf(file) == lower(ConcatAll(file.pages))

\* the test of lines 83-89 for one item
ItemPresent(text, item) ==
  \/ re_search_word(lower(item), text)
  \/ get_close_matches(lower(item), split(text))

\* the loop of extract_items_from_text from position i on
RECURSIVE ExtractLoop(_, _, _, _)
ExtractLoop(text, item_list, i, found_items) ==
  IF i > Len(item_list) THEN found_items
  ELSE ExtractLoop(text, item_list, i + 1,
                   IF ItemPresent(text, item_list[i])
                   THEN Append(found_items, item_list[i])
                   ELSE found_items)

extract_items_from_text(text, item_list) == ExtractLoop(text, item_list, 1, <<>>)

\* calculate_match scoring an empty requirement list as fully met
calculate_match_unguarded(found, required) ==
  LET matched == Range(found) \cap Range(required)
  IN IF required # <<>>
     THEN Rat(Cardinality(matched) * 100, Len(required))
     ELSE Rat(100, 1)

calculate_match(found, required) ==
  LET matched == Range(found) \cap Range(required)
  IN IF required # <<>>
     THEN Rat(Cardinality(matched) * 100, Len(required))
     ELSE Rat(0, 1)

NoSuggestions ==
  <<"N","o"," ","s","u","g","g","e","s","t","i","o","n","s",","," ","r","e","s","u","m","e"," ","i","s"," ","s","t","r","o","n","g","!">>

\* top_3_suggestions concatenating tools before skills
top_3_suggestions_tools_first(missing_skills, missing_tools, missing_certs) ==
  LET suggestions == missing_tools \o missing_skills \o missing_certs
  IN IF suggestions # <<>>
     THEN SubSeq(suggestions, 1, Min(3, Len(suggestions)))
     ELSE <<NoSuggestions>>

top_3_suggestions(missing_skills, missing_tools, missing_certs) ==
  LET suggestions == missing_skills \o missing_tools \o missing_certs
  IN IF suggestions # <<>>
     THEN SubSeq(suggestions, 1, Min(3, Len(suggestions)))
     ELSE <<NoSuggestions>>

\* the missing list built back to front
RECURSIVE missing_items_reversed(_, _)
missing_items_reversed(required, found) ==
  IF required = <<>> THEN <<>>
  ELSE IF Head(required) \in Range(found)
       THEN missing_items_reversed(Tail(required), found)
       ELSE missing_items_reversed(Tail(required), found) \o <<Head(required)>>

\* [s for s in required if s not in found], lines 145-147
RECURSIVE missing_items(_, _)
missing_items(required, found) ==
  IF required = <<>> THEN <<>>
  ELSE IF Head(required) \in Range(found)
       THEN missing_items(Tail(required), found)
       ELSE <<Head(required)>> \o missing_items(Tail(required), found)

\* the weighted sum with the skill weight 0.5
overall_heavy_skills(skill_score, tool_score, cert_score, semantic_score) ==
  RatAdd(RatAdd(RatAdd(RatMul(Rat(5, 10), skill_score),
                       RatMul(Rat(2, 10), tool_score)),
                RatMul(Rat(1, 10), cert_score)),
         RatMul(Rat(3, 10), semantic_score))

\* line 134
overall(skill_score, tool_score, cert_score, semantic_score) ==
  RatAdd(RatAdd(RatAdd(RatMul(Rat(4, 10), skill_score),
                       RatMul(Rat(2, 10), tool_score)),
                RatMul(Rat(1, 10), cert_score)),
         RatMul(Rat(3, 10), semantic_score))

\* the verdict with strict comparisons
verdict_strict(score) ==
  IF ~RatLeq(score, Rat(80, 1)) THEN "Excellent"
  ELSE IF ~RatLeq(score, Rat(60, 1)) THEN "Moderate"
  ELSE "Weak"

\* the if / elif / else of lines 164-169
verdict(score) ==
  IF RatGeq(score, Rat(80, 1)) THEN "Excellent"
  ELSE IF RatGeq(score, Rat(60, 1)) THEN "Moderate"
  ELSE "Weak"

----------------------------------------------------------------------------
(* Inputs.                                                                 *)

\* a file fitz.open() rejects
ResumeNotPdf == [ok |-> FALSE, pages |-> <<>>]

UploadedFiles ==
  {ResumeHtmlCssDocker, ResumeWebSkillsTools, ResumeWebSkillsCert, ResumeWebFull,
   ResumeNotPdf}

\* the roles selected in the runs explored, and one name the catalog lacks
SelectedRoles == {"Web Developer", "DevOps Engineer", "Astronaut"}

\* the answers the similarity provider may give (cosine similarity * 100)
SemanticScores == {Rat(0 - 10, 1), Rat(50, 1), Rat(100, 1)}

MaxRuns == 2

----------------------------------------------------------------------------
(* main(), lines 107-184, one action per block of statements.              *)

Init ==
  /\ JOB_ROLE_DATA = JOB_ROLE_DATA_literal
  /\ provider = <<>>
  /\ pc = "idle"
  /\ uploaded_file = None
  /\ selected_role = None
  /\ resume_text = None
  /\ extracted = None
  /\ scores = None
  /\ overall_score = None
  /\ missing = None
  /\ shown = <<>>
  /\ steps = <<>>
  /\ error = "none"
  /\ runs = 0
  /\ first_result = <<>>
  /\ last_result = None
  /\ call = [fn |-> "none", args |-> <<>>, ret |-> <<>>, done |-> FALSE]

\* job_data = JOB_ROLE_DATA[selected_role] is a reference to the catalog entry
job_data == JOB_ROLE_DATA[selected_role]

\* lines 108-116: a run starts with fresh locals and an empty page
StartRun(file, role, next_pc) ==
  /\ pc = "idle"
  /\ runs < MaxRuns
  /\ uploaded_file' = file
  /\ selected_role' = role
  /\ pc' = next_pc
  /\ runs' = runs + 1
  /\ resume_text' = None
  /\ extracted' = None
  /\ scores' = None
  /\ overall_score' = None
  /\ missing' = None
  /\ shown' = << <<"title">> >>
  /\ steps' = <<>>
  /\ error' = "none"
  /\ last_result' = None
  /\ UNCHANGED <<JOB_ROLE_DATA, provider, first_result, call>>

\* line 116 with a file uploaded
Rerun ==
  \E file \in UploadedFiles, role \in SelectedRoles :
    StartRun(file, role, "extract_text")

\* line 116 with no file uploaded: main() returns
RerunWithoutFile ==
  \E role \in SelectedRoles : StartRun(None, role, "idle")

\* line 117
ExtractText ==
  /\ pc = "extract_text"
  /\ uploaded_file.ok
  /\ resume_text' = extract_text_from_pdf(uploaded_file)
  /\ steps' = Append(steps, "extract_text")
  /\ pc' = "lookup"
  /\ UNCHANGED <<JOB_ROLE_DATA, provider, uploaded_file, selected_role, extracted,
                 scores, overall_score, missing, shown, error, runs, first_result,
                 last_result, call>>

\* the failure swallowed: an empty text stands in and the run goes on
ExtractTextDefaults ==
  /\ pc = "extract_text"
  /\ ~uploaded_file.ok
  /\ error' = "DocumentFormatError"
  /\ resume_text' = <<>>
  /\ pc' = "lookup"
  /\ UNCHANGED <<JOB_ROLE_DATA, provider, uploaded_file, selected_role, extracted,
                 scores, overall_score, missing, shown, steps, runs, first_result,
                 last_result, call>>

\* line 75: fitz.open raises and main() ends with the exception
ExtractTextRaises ==
  /\ pc = "extract_text"
  /\ ~uploaded_file.ok
  /\ error' = "DocumentFormatError"
  /\ pc' = "idle"
  /\ UNCHANGED <<JOB_ROLE_DATA, provider, uploaded_file, selected_role, resume_text,
                 extracted, scores, overall_score, missing, shown, steps, runs,
                 first_result, last_result, call>>

\* line 119
Lookup ==
  /\ pc = "lookup"
  /\ selected_role \in DOMAIN JOB_ROLE_DATA
  /\ steps' = Append(steps, "lookup")
  /\ pc' = "extract_items"
  /\ UNCHANGED <<JOB_ROLE_DATA, provider, uploaded_file, selected_role, resume_text,
                 extracted, scores, overall_score, missing, shown, error, runs,
                 first_result, last_result, call>>

\* line 119: the subscript raises KeyError
LookupRaises ==
  /\ pc = "lookup"
  /\ selected_role \notin DOMAIN JOB_ROLE_DATA
  /\ error' = "KeyError"
  /\ pc' = "idle"
  /\ UNCHANGED <<JOB_ROLE_DATA, provider, uploaded_file, selected_role, resume_text,
                 extracted, scores, overall_score, missing, shown, steps, runs,
                 first_result, last_result, call>>

\* lines 122-124
ExtractItems ==
  /\ pc = "extract_items"
  /\ extracted' =
       [skills |-> extract_items_from_text(resume_text, job_data.skills),
        tools |-> extract_items_from_text(resume_text, job_data.tools),
        certifications |->
          extract_items_from_text(resume_text, job_data.certifications)]
  /\ steps' = Append(steps, "extract_items")
  /\ pc' = "score"
  /\ UNCHANGED <<JOB_ROLE_DATA, provider, uploaded_file, selected_role, resume_text,
                 scores, overall_score, missing, shown, error, runs, first_result,
                 last_result, call>>

\* lines 127-142. calculate_semantic_similarity asks the provider, which
\* answers a pair of texts it has seen before as it did then
Score ==
  /\ pc = "score"
  /\ LET text2 == join(job_data.skills \o job_data.tools \o job_data.certifications)
         key   == <<resume_text, text2>>
     IN \E semantic_score \in SemanticScores :
          /\ key \in DOMAIN provider => semantic_score = provider[key]
          /\ provider' = IF key \in DOMAIN provider THEN provider
                         ELSE provider @@ (key :> semantic_score)
          /\ LET skill_score == calculate_match(extracted.skills, job_data.skills)
                 tool_score  == calculate_match(extracted.tools, job_data.tools)
                 cert_score  == calculate_match(extracted.certifications,
                                                job_data.certifications)
                 total       == overall(skill_score, tool_score, cert_score,
                                        semantic_score)
             IN /\ scores' = [skill |-> skill_score, tool |-> tool_score,
                              cert |-> cert_score, semantic |-> semantic_score]
                /\ overall_score' = total
                /\ shown' = shown \o << <<"bar_chart", skill_score, tool_score,
                                          cert_score, semantic_score>>,
                                        <<"overall", Format2f(total)>> >>
  /\ steps' = Append(steps, "score")
  /\ pc' = "suggest"
  /\ UNCHANGED <<JOB_ROLE_DATA, uploaded_file, selected_role, resume_text, extracted,
                 missing, error, runs, first_result, last_result, call>>

\* lines 145-155
Suggest ==
  /\ pc = "suggest"
  /\ LET missing_skills == missing_items(job_data.skills, extracted.skills)
         missing_tools  == missing_items(job_data.tools, extracted.tools)
         missing_certs  == missing_items(job_data.certifications,
                                         extracted.certifications)
         line(kind, l)  == IF l # <<>> THEN << <<kind, l>> >> ELSE <<>>
     IN /\ missing' = [skills |-> missing_skills, tools |-> missing_tools,
                       certifications |-> missing_certs]
        /\ shown' = shown \o
             (IF missing_skills # <<>> \/ missing_tools # <<>> \/ missing_certs # <<>>
              THEN line("missing_skills", missing_skills)
                   \o line("missing_tools", missing_tools)
                   \o line("missing_certs", missing_certs)
              ELSE << <<"covers_all">> >>)
  /\ steps' = Append(steps, "suggest")
  /\ pc' = "recommend"
  /\ UNCHANGED <<JOB_ROLE_DATA, provider, uploaded_file, selected_role, resume_text,
                 extracted, scores, overall_score, error, runs, first_result,
                 last_result, call>>

\* lines 158-160
Recommend ==
  /\ pc = "recommend"
  /\ LET top == top_3_suggestions(missing.skills, missing.tools,
                                  missing.certifications)
     IN shown' = shown \o [idx \in DOMAIN top |-> <<"recommendation", idx, top[idx]>>]
  /\ steps' = Append(steps, "recommend")
  /\ pc' = "verdict"
  /\ UNCHANGED <<JOB_ROLE_DATA, provider, uploaded_file, selected_role, resume_text,
                 extracted, scores, overall_score, missing, error, runs,
                 first_result, last_result, call>>

\* lines 163-169
Verdict ==
  /\ pc = "verdict"
  /\ shown' = Append(shown, <<"verdict", verdict(overall_score)>>)
  /\ steps' = Append(steps, "verdict")
  /\ pc' = "radar"
  /\ UNCHANGED <<JOB_ROLE_DATA, provider, uploaded_file, selected_role, resume_text,
                 extracted, scores, overall_score, missing, error, runs,
                 first_result, last_result, call>>

\* what a completed run has told the user
Outcome ==
  [scores |-> scores, overall |-> overall_score, missing |-> missing,
   top |-> top_3_suggestions(missing.skills, missing.tools, missing.certifications),
   verdict |-> verdict(overall_score)]

\* lines 172-184. categories is the catalog's own skills list, and
\* categories += categories[:1] extends that list in place
Radar ==
  /\ pc = "radar"
  /\ LET categories == job_data.skills
         values     == [i \in DOMAIN categories |->
                          IF categories[i] \in Range(extracted.skills) THEN 1 ELSE 0]
         closed(l)  == l \o SubSeq(l, 1, Min(1, Len(l)))
         key        == <<uploaded_file, selected_role>>
     IN /\ JOB_ROLE_DATA' =
             [JOB_ROLE_DATA EXCEPT ![selected_role].skills = closed(categories)]
        /\ shown' = Append(shown, <<"radar", closed(values), closed(categories)>>)
        /\ first_result' = IF key \in DOMAIN first_result THEN first_result
                           ELSE first_result @@ (key :> Outcome)
  /\ last_result' = Outcome
  /\ steps' = Append(steps, "radar")
  /\ pc' = "idle"
  /\ UNCHANGED <<provider, uploaded_file, selected_role, resume_text, extracted,
                 scores, overall_score, missing, error, runs, call>>

Next ==
  \/ Rerun
  \/ RerunWithoutFile
  \/ ExtractText
  \/ ExtractTextRaises
  \/ Lookup
  \/ LookupRaises
  \/ ExtractItems
  \/ Score
  \/ Suggest
  \/ Recommend
  \/ Verdict
  \/ Radar

Spec == Init /\ [][Next]_vars

----------------------------------------------------------------------------
(* The helper functions called directly, on arguments from bounded sets.   *)
(* A call is set up one argument at a time and then made; the functions    *)
(* keep no state, so each behaviour makes one call.                        *)

MaxList == 3
MaxMissing == 2

UnitItems == {<<"G","o">>, <<"G","i","t">>, <<"C","+","+">>}

UnitTexts ==
  {<<>>,
   <<"g","o"," ","g","i","t","\n">>,
   <<"g","i","t","t"," ","c","+","+">>,
   <<"c","+","+","x"," ","o","g","o">>}

ListsUpTo(n) == UNION {[1..k -> UnitItems] : k \in 0..n}

UnitFunctions ==
  {"extract_items_from_text", "calculate_match", "missing_items", "top_3_suggestions"}

Arity(fn) == IF fn = "top_3_suggestions" THEN 3 ELSE 2

\* the values tried for argument number k of fn
Arguments(fn, k) ==
  IF fn = "extract_items_from_text" /\ k = 1 THEN UnitTexts
  ELSE IF fn = "top_3_suggestions" THEN ListsUpTo(MaxMissing)
  ELSE ListsUpTo(MaxList)

UnitUnchanged ==
  UNCHANGED <<JOB_ROLE_DATA, provider, pc, uploaded_file, selected_role,
              resume_text, extracted, scores, overall_score, missing, shown,
              steps, error, runs, first_result, last_result>>

Choose ==
  /\ call.fn = "none"
  /\ \E fn \in UnitFunctions : call' = [call EXCEPT !.fn = fn]
  /\ UnitUnchanged

Pass ==
  /\ call.fn \in UnitFunctions
  /\ Len(call.args) < Arity(call.fn)
  /\ \E a \in Arguments(call.fn, Len(call.args) + 1) :
       call' = [call EXCEPT !.args = Append(@, a)]
  /\ UnitUnchanged

Return(fn, ret) ==
  /\ call.fn = fn
  /\ Len(call.args) = Arity(fn)
  /\ ~call.done
  /\ call' = [call EXCEPT !.ret = ret, !.done = TRUE]
  /\ UnitUnchanged

CallExtractItems ==
  Return("extract_items_from_text",
         extract_items_from_text(call.args[1], call.args[2]))

CallCalculateMatch ==
  Return("calculate_match", calculate_match(call.args[1], call.args[2]))

CallMissingItems ==
  Return("missing_items", missing_items(call.args[1], call.args[2]))

CallTop3Suggestions ==
  Return("top_3_suggestions",
         top_3_suggestions(call.args[1], call.args[2], call.args[3]))

UnitNext ==
  \/ Choose
  \/ Pass
  \/ CallExtractItems
  \/ CallCalculateMatch
  \/ CallMissingItems
  \/ CallTop3Suggestions

UnitSpec == Init /\ [][UnitNext]_vars

----------------------------------------------------------------------------
(* Properties.                                                             *)

Categories == {"skills", "tools", "certifications"}

\* kinds of rendered element that carry a score, a suggestion or the verdict
ResultKinds ==
  {"bar_chart", "overall", "missing_skills", "missing_tools", "missing_certs",
   "covers_all", "recommendation", "verdict"}

ShownKinds == {shown[i][1] : i \in DOMAIN shown}

\* r is c with some elements left out
RECURSIVE IsSubsequence(_, _)
IsSubsequence(r, c) ==
  IF r = <<>> THEN TRUE
  ELSE IF c = <<>> THEN FALSE
  ELSE IF Head(r) = Head(c) THEN IsSubsequence(Tail(r), Tail(c))
  ELSE IsSubsequence(r, Tail(c))

InPercentRange(x) == x.num >= 0 /\ x.num <= 100 * x.den

\* C1: after any sequence of analysis runs every role's skills, tools and
\* certifications are what the catalog literal set at process start.
C1_CatalogNeverMutated == JOB_ROLE_DATA = JOB_ROLE_DATA_literal

\* C2: a completed run's scores, overall score, missing lists, top suggestions
\* and verdict equal those of the first completed run with the same document
\* and role, whatever ran in between.
C2_SameInputsSameOutcome ==
  (pc = "idle" /\ steps # <<>> /\ steps[Len(steps)] = "radar")
    => first_result[<<uploaded_file, selected_role>>] = last_result

\* C3: each category score main() computes is in [0,100], and calculate_match
\* of the required list main() passes in against itself is 100.
C3_MatchInRangeAndFull ==
  pc = "suggest" =>
    /\ InPercentRange(scores.skill)
    /\ InPercentRange(scores.tool)
    /\ InPercentRange(scores.cert)
    /\ \A c \in Categories :
         job_data[c] # <<>> => calculate_match(job_data[c], job_data[c]) = Rat(100, 1)

\* C4: each extracted list is a subsequence of the role's category list that
\* holds a candidate exactly when its check succeeds, holds it exactly once,
\* and is no longer than the category list.
C4_ExtractedExactlyOnce ==
  pc = "score" =>
    \A c \in Categories :
      /\ IsSubsequence(extracted[c], job_data[c])
      /\ Len(extracted[c]) <= Len(job_data[c])
      /\ \A item \in Range(job_data[c]) :
           /\ item \in Range(extracted[c]) <=> ItemPresent(resume_text, item)
           /\ item \in Range(extracted[c]) => Count(extracted[c], item) = 1

\* C5: when found is a subset of required, the missing list and found share no
\* item, together hold every required item, and the missing list is required
\* with the found items struck out, in required's order.
C5_MissingPartitionsRequired ==
  (call.fn = "missing_items" /\ call.done) =>
    LET required == call.args[1]
        found    == call.args[2]
        keep     == {i \in DOMAIN required : required[i] \notin Range(found)}
    IN Range(found) \subseteq Range(required) =>
         /\ Range(call.ret) \cap Range(found) = {}
         /\ Range(call.ret) \cup Range(found) = Range(required)
         /\ Len(call.ret) = Cardinality(keep)
         /\ \A k \in DOMAIN call.ret :
              \E i \in keep : /\ Cardinality({j \in keep : j < i}) = k - 1
                              /\ call.ret[k] = required[i]

C5_Witness ==
  /\ call.fn = "missing_items"
  /\ call.done
  /\ Range(call.args[2]) \subseteq Range(call.args[1])
  /\ call.args[2] # <<>>
  /\ Len(call.ret) >= 2
  /\ call.ret[1] # call.ret[2]

\* C6: top_3_suggestions returns the first min(3, n) elements of skills, then
\* tools, then certifications when n > 0 are missing, never more than 3 items,
\* and the sentinel message exactly when all three lists are empty.
C6_TopSuggestions ==
  (call.fn = "top_3_suggestions" /\ call.done) =>
    LET ms == call.args[1]
        mt == call.args[2]
        mc == call.args[3]
        n  == Len(ms) + Len(mt) + Len(mc)
        At(i) == IF i <= Len(ms) THEN ms[i]
                 ELSE IF i <= Len(ms) + Len(mt) THEN mt[i - Len(ms)]
                 ELSE mc[i - Len(ms) - Len(mt)]
    IN /\ Len(call.ret) <= 3
       /\ n > 0 => /\ Len(call.ret) = Min(3, n)
                   /\ \A i \in DOMAIN call.ret : call.ret[i] = At(i)
       /\ call.ret = <<NoSuggestions>> <=> n = 0

C6_Witness ==
  /\ call.fn = "top_3_suggestions"
  /\ call.done
  /\ Len(call.args[1]) = 1
  /\ Len(call.args[2]) = 2
  /\ Len(call.args[3]) = 1
  /\ call.args[1][1] # call.args[2][1]
  /\ Len(call.ret) = 3

\* C7: a run that reaches the verdict step shows exactly one verdict:
\* Excellent iff overall >= 80, Moderate iff 60 <= overall < 80, Weak iff
\* overall < 60.
C7_VerdictBands ==
  pc = "radar" =>
    LET verdicts == {i \in DOMAIN shown : shown[i][1] = "verdict"}
        n == overall_score.num
        d == overall_score.den
    IN /\ Cardinality(verdicts) = 1
       /\ \A i \in verdicts :
            /\ shown[i][2] \in {"Excellent", "Moderate", "Weak"}
            /\ shown[i][2] = "Excellent" <=> n >= 80 * d
            /\ shown[i][2] = "Moderate" <=> (n >= 60 * d /\ n < 80 * d)
            /\ shown[i][2] = "Weak" <=> n < 60 * d

C7_Witness ==
  /\ pc = "radar"
  /\ overall_score = Rat(80, 1)
  /\ shown[Len(shown)] = <<"verdict", "Excellent">>

\* C8: an empty required list gives calculate_match 0 for any found list, an
\* empty extract_items_from_text result and an empty missing list.
C8_EmptyRequired ==
  call.done =>
    /\ (call.fn = "calculate_match" /\ call.args[2] = <<>>) => call.ret = Rat(0, 1)
    /\ (call.fn = "extract_items_from_text" /\ call.args[2] = <<>>) => call.ret = <<>>
    /\ (call.fn = "missing_items" /\ call.args[1] = <<>>) => call.ret = <<>>

C8_Witness ==
  /\ call.fn = "calculate_match"
  /\ call.done
  /\ call.args[2] = <<>>
  /\ Len(call.args[1]) >= 2

\* C9: the overall score is 0.4*skill + 0.2*tool + 0.1*cert + 0.3*semantic; the
\* three category percentages are in [0,100]; and when the semantic percentage
\* is in [0,100] too, so is the overall score.
C9_OverallWeightedSum ==
  pc = "suggest" =>
    LET s == scores.skill
        t == scores.tool
        c == scores.cert
        m == scores.semantic
    IN /\ overall_score.num * 10 * s.den * t.den * c.den * m.den
            = overall_score.den * (  4 * s.num * t.den * c.den * m.den
                                   + 2 * t.num * s.den * c.den * m.den
                                   + 1 * c.num * s.den * t.den * m.den
                                   + 3 * m.num * s.den * t.den * c.den)
       /\ InPercentRange(s)
       /\ InPercentRange(t)
       /\ InPercentRange(c)
       /\ InPercentRange(m) => InPercentRange(overall_score)

C9_Witness ==
  /\ pc = "suggest"
  /\ scores.skill = Rat(100, 1)
  /\ scores.tool = Rat(100, 1)
  /\ scores.cert = Rat(100, 1)
  /\ scores.semantic = Rat(100, 1)
  /\ overall_score = Rat(100, 1)

\* C10: a run whose text extraction or role lookup failed has computed and
\* shown no score, suggestion or verdict; and one is shown only after text
\* extraction, role lookup and item matching have completed, in that order.
C10_FailuresAbort ==
  /\ error # "none" =>
       /\ ShownKinds \cap ResultKinds = {}
       /\ Range(steps) \cap {"score", "suggest", "recommend", "verdict", "radar"} = {}
  /\ ShownKinds \cap ResultKinds # {} =>
       /\ Len(steps) >= 4
       /\ SubSeq(steps, 1, 4) = <<"extract_text", "lookup", "extract_items", "score">>

C10_Witness ==
  /\ error = "KeyError"
  /\ steps = <<"extract_text">>
  /\ shown = << <<"title">> >>
  /\ runs = 2
====
